---- MODULE Spec2Model ----
(***************************************************************************)
(* Model of tao's Linux system tray (src/platform_impl/linux/system_tray.rs)*)
(*                                                                         *)
(*   SpecBuild : SystemTrayBuilder::build over every icon path up to       *)
(*               MaxPathLen characters (split_icon and the std::path       *)
(*               operations it calls).                                     *)
(*   Spec      : a built tray; NThreads application threads mutate it      *)
(*               through SystemTray::set_icon / set_menu while the service *)
(*               thread answers the tray host through impl ksni::Tray.     *)
(*   SpecMenu  : TrayMenu construction (add_item) and entry activation.    *)
(***************************************************************************)
EXTENDS Integers, Sequences, FiniteSets, TLC

VARIABLES
  builder,     \* SystemTrayBuilder { tray_menu, icon }
  built,       \* outcome of SystemTrayBuilder::build: "pending", "Ok", "panic"
  tray,        \* KsniTray { title, icon_name, icon_theme_path, status, menu }
  lock,        \* holder of the mutex around the KsniTray: Free, BySvc or ByThread(t)
  pc,          \* per application thread: position inside SystemTray::set_icon / set_menu
  op,          \* per application thread: the call in progress and its locals
  pending,     \* update requests sent by Handle::update, not yet handled by the service
  svc,         \* the service thread: "idle", "read", "update", "panicked"
  req,         \* the request the service is answering
  obs,         \* what the service has read under its current lock
  signals,     \* signals emitted to the tray host, in order
  committed,   \* history: the KsniTray as left by the last completed mutation
  lastIcon,    \* history: icon path of the construction or last completed set_icon
  lastMenu,    \* history: menu of the construction or last completed set_menu
  unsignalled, \* history: kinds of completed mutation no host signal has followed
  menu,        \* a TrayMenu under construction: TrayMenu(Vec<TrayMenuItem>)
  call,        \* arguments of the last TrayMenu call
  ret,         \* value returned by the last TrayMenu call
  entries,     \* the TrayMenuItem objects add_item has created
  channel,     \* messages on the application's event channel (sender)
  activated    \* history: menu ids the tray host has activated, in order

vars == <<builder, built, tray, lock, pc, op, pending, svc, req, obs,
          signals, committed, lastIcon, lastMenu, unsignalled,
          menu, call, ret, entries, channel, activated>>

trayVars == <<lock, pc, op, pending, svc, req, obs, signals, unsignalled>>
menuVars == <<menu, call, ret, entries, channel, activated>>

(***************************************************************************)
(* Bounds                                                                  *)
(***************************************************************************)
MaxPathLen == 6
NThreads == 2
MaxPending == 1
MaxEntries == 2
MaxActivations == 2

None == [some |-> FALSE]
Free == [by |-> "none"]
BySvc == [by |-> "svc"]
ByThread(t) == [by |-> "thread", id |-> t]
Some(x) == [some |-> TRUE, val |-> x]

(***************************************************************************)
(* Icon paths.  A path is a sequence of characters; "X" stands for a byte  *)
(* that is not valid UTF-8 and "?" for U+FFFD REPLACEMENT CHARACTER.       *)
(***************************************************************************)
PathChars == {"/", ".", "a", "X"}
Paths == UNION {[1..n -> PathChars] : n \in 0..MaxPathLen}

to_string_lossy(s) == [i \in 1..Len(s) |-> IF s[i] = "X" THEN "?" ELSE s[i]]

Prefix(p, n) == SubSeq(p, 1, n)
LastIndexOf(s, c) ==
  IF \E i \in 1..Len(s) : s[i] = c
    THEN CHOOSE i \in 1..Len(s) : s[i] = c /\ \A j \in (i+1)..Len(s) : s[j] # c
    ELSE 0

\* std::path::Path::components: the iterator's state before any call
components(p) ==
  [path |-> p, has_physical_root |-> (Len(p) > 0 /\ p[1] = "/"), back |-> "Body"]

include_cur_dir(c) ==
  /\ ~c.has_physical_root
  /\ Len(c.path) > 0
  /\ c.path[1] = "."
  /\ (Len(c.path) = 1 \/ c.path[2] = "/")

len_before_body(c) ==
  (IF c.has_physical_root THEN 1 ELSE 0) + (IF include_cur_dir(c) THEN 1 ELSE 0)

parse_single_component(comp) ==
  IF comp = <<>> \/ comp = <<".">> THEN None
  ELSE IF comp = <<".", ".">> THEN Some([kind |-> "ParentDir", name |-> comp])
  ELSE Some([kind |-> "Normal", name |-> comp])

\* parse_next_component_back, for the body of the path and the index of its last
\* separator (0 if none): the size consumed and the component after the separator
component_after(body, i) ==
  [size |-> (Len(body) - i) + (IF i = 0 THEN 0 ELSE 1),
   comp |-> parse_single_component(SubSeq(body, i + 1, Len(body)))]

last_component(body) == component_after(body, LastIndexOf(body, "/"))

parse_next_component_back(c) ==
  last_component(SubSeq(c.path, len_before_body(c) + 1, Len(c.path)))

shorten(c, size) == [c EXCEPT !.path = Prefix(c.path, Len(c.path) - size)]

RECURSIVE next_back(_)
\* next_back in State::Body, r the component parsed from the back
next_back_body(c, r) ==
  IF r.comp.some THEN [comp |-> r.comp, rest |-> shorten(c, r.size)]
  ELSE next_back(shorten(c, r.size))

\* std::path::Components::next_back
next_back(c) ==
  IF c.back = "Body" THEN
    IF Len(c.path) > len_before_body(c)
      THEN next_back_body(c, parse_next_component_back(c))
      ELSE next_back([c EXCEPT !.back = "StartDir"])
  ELSE IF c.back = "StartDir" THEN
    IF c.has_physical_root THEN
      [comp |-> Some([kind |-> "RootDir", name |-> <<"/">>]),
       rest |-> [shorten(c, 1) EXCEPT !.back = "Prefix"]]
    ELSE IF include_cur_dir(c) THEN
      [comp |-> Some([kind |-> "CurDir", name |-> <<".">>]),
       rest |-> [shorten(c, 1) EXCEPT !.back = "Prefix"]]
    ELSE [comp |-> None, rest |-> [c EXCEPT !.back = "Done"]]
  ELSE [comp |-> None, rest |-> [c EXCEPT !.back = "Done"]]

RECURSIVE trim_right(_)
trim_right_body(c, r) == IF r.comp.some THEN c ELSE trim_right(shorten(c, r.size))

\* std::path::Components::trim_right
trim_right(c) ==
  IF Len(c.path) > len_before_body(c)
    THEN trim_right_body(c, parse_next_component_back(c))
    ELSE c

as_path(c) == IF c.back = "Body" THEN trim_right(c).path ELSE c.path

\* the match of Path::file_name on the last component
normal_name(r) ==
  IF r.comp.some /\ r.comp.val.kind = "Normal" THEN Some(r.comp.val.name) ELSE None

\* Path::file_name
file_name(p) == normal_name(next_back(components(p)))

\* rsplit_file_at_dot, before.or(after): i is the index of the last dot of file
before_or_after(file, i) ==
  IF i = 0 \/ i = 1 THEN Some(file) ELSE Some(Prefix(file, i - 1))

stem_of(f) == IF f.some THEN before_or_after(f.val, LastIndexOf(f.val, ".")) ELSE None

\* Path::file_stem
file_stem(p) == stem_of(file_name(p))

\* the match of Path::parent on the last component
parent_of(r) ==
  IF r.comp.some /\ r.comp.val.kind \in {"Normal", "CurDir", "ParentDir"}
    THEN Some(as_path(r.rest))
    ELSE None

\* Path::parent
parent(p) == parent_of(next_back(components(p)))

\* split_icon, given the two Options: each expect() panics on None
expect_both(stem, dir) ==
  IF ~stem.some THEN [panic |-> TRUE, msg |-> "Invalid icon name!"]
  ELSE IF ~dir.some THEN [panic |-> TRUE, msg |-> "Invalid icon theme path!"]
  ELSE [panic |-> FALSE,
        icon_name |-> to_string_lossy(stem.val),
        icon_theme_path |-> to_string_lossy(dir.val)]

\* A variant of split_icon that takes the whole file name as the icon name.
split_icon_file_name(icon) == expect_both(file_name(icon), parent(icon))

\* KsniTray::split_icon
split_icon(icon) == expect_both(file_stem(icon), parent(icon))

(***************************************************************************)
(* KsniTray construction                                                   *)
(***************************************************************************)
Title == "tao application"

\* TrayMenu::new: the only constructor of a TrayMenu
TrayMenu_new == <<>>

KsniTray_new(title, icon) ==
  LET s == split_icon(icon)
  IN [title |-> title, icon_name |-> s.icon_name, icon_theme_path |-> s.icon_theme_path,
      menu |-> None, status |-> "Active"]

KsniTray_new_with_menu(title, icon, m) ==
  LET s == split_icon(icon)
  IN [title |-> title, icon_name |-> s.icon_name, icon_theme_path |-> s.icon_theme_path,
      menu |-> Some(m), status |-> "Active"]

NoTray == [title |-> "", icon_name |-> <<>>, icon_theme_path |-> <<>>,
           menu |-> None, status |-> "None"]

\* the KsniTray that SystemTrayBuilder::build hands to SystemTray::new
build_tray(b) ==
  IF b.tray_menu.some THEN KsniTray_new_with_menu(Title, b.icon, b.tray_menu.val)
  ELSE KsniTray_new(Title, b.icon)

Threads == 1..NThreads

IdleTrayVars ==
  /\ lock = Free
  /\ pc = [t \in Threads |-> "idle"]
  /\ op = [t \in Threads |-> None]
  /\ pending = 0
  /\ svc = "idle"
  /\ req = "none"
  /\ obs = None
  /\ signals = <<>>
  /\ unsignalled = {}

IdleMenuVars ==
  /\ menu = TrayMenu_new
  /\ call = None
  /\ ret = None
  /\ entries = <<>>
  /\ channel = <<>>
  /\ activated = <<>>

(***************************************************************************)
(* SpecBuild: SystemTrayBuilder::new, then build                           *)
(***************************************************************************)
InitBuild ==
  /\ builder \in [icon : Paths, tray_menu : {None, Some(TrayMenu_new)}]
  /\ built = "pending"
  /\ tray = NoTray
  /\ committed = NoTray
  /\ lastIcon = <<>>
  /\ lastMenu = None
  /\ IdleTrayVars
  /\ IdleMenuVars

\* build, when split_icon panics inside KsniTray::new / new_with_menu
BuildPanic ==
  /\ built = "pending"
  /\ split_icon(builder.icon).panic
  /\ built' = "panic"
  /\ UNCHANGED <<builder, tray, committed, lastIcon, lastMenu>>
  /\ UNCHANGED trayVars
  /\ UNCHANGED menuVars

\* build, returning Ok(RootSystemTray(SystemTray::new(tray)))
BuildOk ==
  /\ built = "pending"
  /\ ~split_icon(builder.icon).panic
  /\ built' = "Ok"
  /\ tray' = build_tray(builder)
  /\ committed' = tray'
  /\ lastIcon' = builder.icon
  /\ lastMenu' = builder.tray_menu
  /\ UNCHANGED builder
  /\ UNCHANGED <<lock, pc, op, pending, svc, req, obs, signals, unsignalled>>
  /\ UNCHANGED menuVars

NextBuild == BuildPanic \/ BuildOk

SpecBuild == InitBuild /\ [][NextBuild]_vars

(***************************************************************************)
(* Spec: the running tray.  SystemTray::new has wrapped the KsniTray in a  *)
(* ksni::TrayService and spawned it; tray_handle.update(f) takes the       *)
(* service's mutex, runs f on the KsniTray, releases the mutex and sends   *)
(* the service an update request.                                          *)
(***************************************************************************)
IconApp == <<"/", "a", "/", "a", ".", "a">>
IconLossy == <<"/", "X">>
IconRoot == <<"/">>
IconPaths == {IconApp, IconLossy, IconRoot}
Menus == {TrayMenu_new}

Init ==
  /\ builder \in [icon : {IconApp}, tray_menu : {None} \cup {Some(m) : m \in Menus}]
  /\ built = "Ok"
  /\ tray = build_tray(builder)
  /\ committed = tray
  /\ lastIcon = builder.icon
  /\ lastMenu = builder.tray_menu
  /\ IdleTrayVars
  /\ IdleMenuVars

\* SystemTray::set_icon(icon): entered, about to call tray_handle.update
CallSetIcon(t, icon) ==
  /\ pc[t] = "idle"
  /\ pc' = [pc EXCEPT ![t] = "lock"]
  /\ op' = [op EXCEPT ![t] = Some([kind |-> "set_icon", icon |-> icon])]
  /\ UNCHANGED <<builder, built, tray, lock, pending, svc, req, obs, signals, committed,
                 lastIcon, lastMenu, unsignalled>>
  /\ UNCHANGED menuVars

\* SystemTray::set_menu(tray_menu): entered, about to call tray_handle.update
CallSetMenu(t, m) ==
  /\ pc[t] = "idle"
  /\ pc' = [pc EXCEPT ![t] = "lock"]
  /\ op' = [op EXCEPT ![t] = Some([kind |-> "set_menu", tray_menu |-> m])]
  /\ UNCHANGED <<builder, built, tray, lock, pending, svc, req, obs, signals, committed,
                 lastIcon, lastMenu, unsignalled>>
  /\ UNCHANGED menuVars

\* the mutex around the KsniTray can be taken
MutexFree == lock = Free

\* Handle::update takes the mutex
Lock(t) ==
  /\ pc[t] = "lock"
  /\ MutexFree
  /\ lock' = ByThread(t)
  /\ pc' = [pc EXCEPT ![t] = "closure"]
  /\ UNCHANGED <<builder, built, tray, op, pending, svc, req, obs, signals, committed,
                 lastIcon, lastMenu, unsignalled>>
  /\ UNCHANGED menuVars

\* KsniTray::set_icon, line 144: split_icon panics; the unwinding closure drops the mutex
SetIconPanic(t) ==
  /\ pc[t] = "closure"
  /\ op[t].val.kind = "set_icon"
  /\ split_icon(op[t].val.icon).panic
  /\ pc' = [pc EXCEPT ![t] = "panicked"]
  /\ op' = [op EXCEPT ![t] = None]
  /\ lock' = Free
  /\ UNCHANGED <<builder, built, tray, pending, svc, req, obs, signals, committed,
                 lastIcon, lastMenu, unsignalled>>
  /\ UNCHANGED menuVars

\* A variant of the first assignment of KsniTray::set_icon that rebuilds the
\* tray the way KsniTray::new does, dropping the menu.
set_icon_name_reset_menu(tr, s) == [tr EXCEPT !.icon_name = s.icon_name, !.menu = None]

\* A variant of the first assignment of KsniTray::set_icon that appends the new name
\* to the old one.
set_icon_name_appended(tr, s) == [tr EXCEPT !.icon_name = tr.icon_name \o s.icon_name]

\* KsniTray::set_icon, line 145
set_icon_name(tr, s) == [tr EXCEPT !.icon_name = s.icon_name]

\* A variant of the second assignment of KsniTray::set_icon that is left out.
set_icon_theme_path_skipped(tr, s) == tr

\* A variant of the second assignment of KsniTray::set_icon that stores the name.
set_icon_theme_path_name(tr, s) == [tr EXCEPT !.icon_theme_path = s.icon_name]

\* A variant of the second assignment of KsniTray::set_icon that also retitles the tray
\* after its icon.
set_icon_theme_path_retitled(tr, s) ==
  [tr EXCEPT !.icon_theme_path = s.icon_theme_path, !.title = "tao icon"]

\* KsniTray::set_icon, line 146
set_icon_theme_path(tr, s) == [tr EXCEPT !.icon_theme_path = s.icon_theme_path]

\* KsniTray::set_icon, for a path split_icon accepts
KsniTray_set_icon(tr, icon) ==
  set_icon_theme_path(set_icon_name(tr, split_icon(icon)), split_icon(icon))

\* A variant of KsniTray::set_menu that only replaces a menu already present.
KsniTray_set_menu_if_present(tr, m) == IF tr.menu.some THEN [tr EXCEPT !.menu = Some(m)] ELSE tr

\* A variant of KsniTray::set_menu that also asks for the user's attention.
KsniTray_set_menu_needs_attention(tr, m) ==
  [tr EXCEPT !.menu = Some(m), !.status = "NeedsAttention"]

\* KsniTray::set_menu
KsniTray_set_menu(tr, m) == [tr EXCEPT !.menu = Some(m)]

\* KsniTray::set_icon, lines 144-145
SetIconName(t) ==
  /\ pc[t] = "closure"
  /\ op[t].val.kind = "set_icon"
  /\ ~split_icon(op[t].val.icon).panic
  /\ tray' = set_icon_name(tray, split_icon(op[t].val.icon))
  /\ pc' = [pc EXCEPT ![t] = "icon_theme_path"]
  /\ UNCHANGED <<builder, built, lock, op, pending, svc, req, obs, signals, committed,
                 lastIcon, lastMenu, unsignalled>>
  /\ UNCHANGED menuVars

\* KsniTray::set_icon, line 146
SetIconThemePath(t) ==
  /\ pc[t] = "icon_theme_path"
  /\ tray' = set_icon_theme_path(tray, split_icon(op[t].val.icon))
  /\ pc' = [pc EXCEPT ![t] = "unlock"]
  /\ UNCHANGED <<builder, built, lock, op, pending, svc, req, obs, signals, committed,
                 lastIcon, lastMenu, unsignalled>>
  /\ UNCHANGED menuVars

\* the closure of SystemTray::set_menu: tray.set_menu(tray_menu.clone())
SetMenu(t) ==
  /\ pc[t] = "closure"
  /\ op[t].val.kind = "set_menu"
  /\ tray' = KsniTray_set_menu(tray, op[t].val.tray_menu)
  /\ pc' = [pc EXCEPT ![t] = "unlock"]
  /\ UNCHANGED <<builder, built, lock, op, pending, svc, req, obs, signals, committed,
                 lastIcon, lastMenu, unsignalled>>
  /\ UNCHANGED menuVars

\* Handle::update: the closure has returned, the mutex is released
Unlock(t) ==
  /\ pc[t] = "unlock"
  /\ lock' = Free
  /\ pc' = [pc EXCEPT ![t] = "notify"]
  /\ committed' = tray
  /\ lastIcon' = IF op[t].val.kind = "set_icon" THEN op[t].val.icon ELSE lastIcon
  /\ lastMenu' = IF op[t].val.kind = "set_menu" THEN Some(op[t].val.tray_menu) ELSE lastMenu
  /\ UNCHANGED <<builder, built, tray, op, pending, svc, req, obs, signals, unsignalled>>
  /\ UNCHANGED menuVars

\* Handle::update: the update request is sent to the service and the call returns;
\* a request to a service thread that has ended is dropped
Notify(t) ==
  /\ pc[t] = "notify"
  /\ svc = "panicked" \/ pending < MaxPending
  /\ pending' = IF svc = "panicked" THEN pending ELSE pending + 1
  /\ pc' = [pc EXCEPT ![t] = "idle"]
  /\ op' = [op EXCEPT ![t] = None]
  /\ unsignalled' = unsignalled \cup {op[t].val.kind}
  /\ UNCHANGED <<builder, built, tray, lock, svc, req, obs, signals, committed,
                 lastIcon, lastMenu>>
  /\ UNCHANGED menuVars

(***************************************************************************)
(* The service thread: requests of the tray host, answered through         *)
(* impl ksni::Tray for KsniTray with the mutex held.                       *)
(***************************************************************************)
Properties == {"title", "icon_name", "icon_theme_path", "status"}

\* <KsniTray as ksni::Tray>::title, icon_name, icon_theme_path, status
Getter(tr, prop) ==
  CASE prop = "title" -> tr.title
    [] prop = "icon_name" -> tr.icon_name
    [] prop = "icon_theme_path" -> tr.icon_theme_path
    [] prop = "status" -> tr.status

\* the host asks for a property or for the menu tree; the service takes the mutex
SvcRequest(r) ==
  /\ svc = "idle"
  /\ MutexFree
  /\ lock' = BySvc
  /\ svc' = "read"
  /\ req' = r
  /\ UNCHANGED <<builder, built, tray, pc, op, pending, obs, signals, committed,
                 lastIcon, lastMenu, unsignalled>>
  /\ UNCHANGED menuVars

\* a property query: the getter's value is the reply
SvcGetProperty ==
  /\ svc = "read"
  /\ req \in Properties
  /\ obs' = Some([prop |-> req, val |-> Getter(tray, req)])
  /\ svc' = "reply"
  /\ UNCHANGED <<builder, built, tray, lock, pc, op, pending, req, signals, committed,
                 lastIcon, lastMenu, unsignalled>>
  /\ UNCHANGED menuVars

\* <KsniTray as ksni::Tray>::menu is todo!(): the service thread panics, mutex held
SvcMenuPanic ==
  /\ svc \in {"read", "update_menu"}
  /\ req \in {"menu", "update"}
  /\ svc' = "panicked"
  /\ lock' = Free
  /\ UNCHANGED <<builder, built, tray, pc, op, pending, req, obs, signals, committed,
                 lastIcon, lastMenu, unsignalled>>
  /\ UNCHANGED menuVars

\* the reply is sent and the mutex released
SvcReply ==
  /\ svc = "reply"
  /\ lock' = Free
  /\ svc' = "idle"
  /\ req' = "none"
  /\ obs' = None
  /\ UNCHANGED <<builder, built, tray, pc, op, pending, signals, committed, lastIcon,
                 lastMenu, unsignalled>>
  /\ UNCHANGED menuVars

\* the service takes an update request of Handle::update and the mutex
SvcUpdate ==
  /\ svc = "idle"
  /\ pending > 0
  /\ MutexFree
  /\ pending' = pending - 1
  /\ lock' = BySvc
  /\ svc' = "update"
  /\ req' = "update"
  /\ UNCHANGED <<builder, built, tray, pc, op, obs, signals, committed, lastIcon,
                 lastMenu, unsignalled>>
  /\ UNCHANGED menuVars

\* handling an update: the properties are read through the getters and the host
\* is told that they changed; the menu is resolved next
SvcUpdateProperties ==
  /\ svc = "update"
  /\ obs' = Some([prop |-> "all", val |-> [p \in Properties |-> Getter(tray, p)]])
  /\ signals' = Append(signals, "properties")
  /\ unsignalled' = unsignalled \ {"set_icon"}
  /\ svc' = "update_menu"
  /\ UNCHANGED <<builder, built, tray, lock, pc, op, pending, req, committed, lastIcon,
                 lastMenu>>
  /\ UNCHANGED menuVars

Next ==
  \/ \E t \in Threads : \E icon \in IconPaths : CallSetIcon(t, icon)
  \/ \E t \in Threads : \E m \in Menus : CallSetMenu(t, m)
  \/ \E t \in Threads : Lock(t)
  \/ \E t \in Threads : SetIconPanic(t)
  \/ \E t \in Threads : SetIconName(t)
  \/ \E t \in Threads : SetIconThemePath(t)
  \/ \E t \in Threads : SetMenu(t)
  \/ \E t \in Threads : Unlock(t)
  \/ \E t \in Threads : Notify(t)
  \/ \E r \in Properties \cup {"menu"} : SvcRequest(r)
  \/ SvcGetProperty
  \/ SvcMenuPanic
  \/ SvcReply
  \/ SvcUpdate
  \/ SvcUpdateProperties

Spec == Init /\ [][Next]_vars

(***************************************************************************)
(* SpecMenu: the application builds a TrayMenu; the tray host activates    *)
(* entries.                                                                *)
(***************************************************************************)
MenuIds == {1, 2}
Titles == {"Quit", "AutoStart"}
Accelerators == {None}
MenuTypes == {"ContextMenu"}
NativeItems == {"About", "Quit"}

\* A variant of the item construction that tests the enabled flag.
ksni_item_by_enabled(title, enabled, selected) ==
  IF enabled
    THEN [variant |-> "Checkmark", label |-> title, enabled |-> enabled,
          checked |-> selected, activate |-> "default"]
    ELSE [variant |-> "Standard", label |-> title, enabled |-> enabled,
          activate |-> "default"]

\* add_item, lines 213-228: the ksni::MenuItem built from the arguments; every field
\* not named is Default::default(), the activate callback included
ksni_item(title, enabled, selected) ==
  IF selected
    THEN [variant |-> "Checkmark", label |-> title, enabled |-> enabled,
          checked |-> selected, activate |-> "default"]
    ELSE [variant |-> "Standard", label |-> title, enabled |-> enabled,
          activate |-> "default"]

\* add_item, lines 229-238: the CustomMenuItem returned
MenuItemAttributes(menu_id, title, accelerators, enabled, selected, menu_type) ==
  [id |-> menu_id, key |-> accelerators, selected |-> selected, enabled |-> enabled,
   menu_type |-> menu_type, inner_item |-> ksni_item(title, enabled, selected)]

InitMenu ==
  /\ builder = [icon |-> IconApp, tray_menu |-> None]
  /\ built = "pending"
  /\ tray = NoTray
  /\ committed = NoTray
  /\ lastIcon = <<>>
  /\ lastMenu = None
  /\ IdleTrayVars
  /\ IdleMenuVars

\* TrayMenu::add_item: the item is built and returned; self.0 is not touched
AddItem(menu_id, title, accelerators, enabled, selected, menu_type) ==
  /\ Len(entries) < MaxEntries
  /\ call' = Some([fn |-> "add_item", menu_id |-> menu_id, title |-> title,
                   accelerators |-> accelerators, enabled |-> enabled,
                   selected |-> selected, menu_type |-> menu_type])
  /\ ret' = Some(MenuItemAttributes(menu_id, title, accelerators, enabled, selected, menu_type))
  /\ entries' = Append(entries, ret'.val)
  /\ UNCHANGED <<menu, channel, activated>>
  /\ UNCHANGED <<builder, built, tray, committed, lastIcon, lastMenu>>
  /\ UNCHANGED trayVars

\* TrayMenu::add_native_item
AddNativeItem(item, menu_type) ==
  /\ call' = Some([fn |-> "add_native_item", item |-> item, menu_type |-> menu_type])
  /\ ret' = None
  /\ UNCHANGED <<menu, entries, channel, activated>>
  /\ UNCHANGED <<builder, built, tray, committed, lastIcon, lastMenu>>
  /\ UNCHANGED trayVars

\* A variant of add_submenu that pushes a submenu item to self.0.
AddSubmenu_pushing(title, enabled, submenu) ==
  /\ call' = Some([fn |-> "add_submenu", title |-> title, enabled |-> enabled,
                   submenu |-> submenu])
  /\ ret' = None
  /\ menu' = Append(menu, [variant |-> "SubMenu", label |-> title, enabled |-> enabled,
                           submenu |-> submenu])
  /\ UNCHANGED <<entries, channel, activated>>
  /\ UNCHANGED <<builder, built, tray, committed, lastIcon, lastMenu>>
  /\ UNCHANGED trayVars

\* TrayMenu::add_submenu
AddSubmenu(title, enabled, submenu) ==
  /\ call' = Some([fn |-> "add_submenu", title |-> title, enabled |-> enabled,
                   submenu |-> submenu])
  /\ ret' = None
  /\ UNCHANGED <<menu, entries, channel, activated>>
  /\ UNCHANGED <<builder, built, tray, committed, lastIcon, lastMenu>>
  /\ UNCHANGED trayVars

WindowId == "window"

\* the tray host activates entry i: its activate callback runs
Activate(i) ==
  /\ Len(activated) < MaxActivations
  /\ i \in 1..Len(entries)
  /\ activated' = Append(activated, entries[i].id)
  /\ channel' = IF entries[i].inner_item.activate = "default"
                  THEN channel
                  ELSE Append(channel, <<WindowId, entries[i].id>>)
  /\ UNCHANGED <<menu, call, ret, entries>>
  /\ UNCHANGED <<builder, built, tray, committed, lastIcon, lastMenu>>
  /\ UNCHANGED trayVars

NextMenu ==
  \/ \E menu_id \in MenuIds, title \in Titles, accelerators \in Accelerators,
        enabled \in BOOLEAN, selected \in BOOLEAN, menu_type \in MenuTypes :
       AddItem(menu_id, title, accelerators, enabled, selected, menu_type)
  \/ \E item \in NativeItems, menu_type \in MenuTypes : AddNativeItem(item, menu_type)
  \/ \E title \in Titles, enabled \in BOOLEAN : AddSubmenu(title, enabled, TrayMenu_new)
  \/ \E i \in 1..MaxEntries : Activate(i)

SpecMenu == InitMenu /\ [][NextMenu]_vars

(***************************************************************************)
(* Claims                                                                  *)
(***************************************************************************)
HasStem(icon) == file_stem(icon).some
HasParent(icon) == parent(icon).some
\* no parent directory: Path::parent is None, or the empty path of a bare file name
NoParentDir(icon) == IF parent(icon).some THEN parent(icon).val = <<>> ELSE TRUE
ValidUnicode(icon) == \A i \in 1..Len(icon) : icon[i] # "X"

\* C1: for every icon path without a file stem or without a parent directory, build
\* ends with a ConfigurationError returned as an error value, and a build that
\* succeeds has a non-empty icon_name and a non-empty icon_search_path.
C1_BuildFailsWithConfigurationError ==
  built # "pending" =>
    /\ (~HasStem(builder.icon) \/ NoParentDir(builder.icon)) => built = "ConfigurationError"
    /\ built = "Ok" => tray.icon_name # <<>> /\ tray.icon_theme_path # <<>>

\* C2 as stated: for every icon path with a file stem and a parent, build succeeds,
\* icon_name is the stem exactly, icon_search_path is the parent exactly, status Active.
C2_IconIsStemAndParentExactly ==
  (built # "pending" /\ HasStem(builder.icon) /\ HasParent(builder.icon)) =>
    /\ built = "Ok"
    /\ tray.icon_name = file_stem(builder.icon).val
    /\ tray.icon_theme_path = parent(builder.icon).val
    /\ tray.status = "Active"

\* C2 as amended: for every icon path with a file stem and a parent, build (with or
\* without a menu) succeeds with status Active, icon_name the stem and icon_search_path
\* the parent after their lossy conversion to UTF-8; they are the stem and the parent
\* exactly when the path is valid Unicode.
C2_IconIsLossyStemAndParent ==
  (built # "pending" /\ HasStem(builder.icon) /\ HasParent(builder.icon)) =>
    /\ built = "Ok"
    /\ tray.icon_name = to_string_lossy(file_stem(builder.icon).val)
    /\ tray.icon_theme_path = to_string_lossy(parent(builder.icon).val)
    /\ tray.status = "Active"
    /\ ValidUnicode(builder.icon) =>
         /\ tray.icon_name = file_stem(builder.icon).val
         /\ tray.icon_theme_path = parent(builder.icon).val

\* build("/a/a.a", None): status Active, icon_name "a", icon_search_path "/a"
C2_Witness ==
  /\ built = "Ok"
  /\ builder = [icon |-> IconApp, tray_menu |-> None]
  /\ tray.icon_name = <<"a">>
  /\ tray.icon_theme_path = <<"/", "a">>
  /\ tray.status = "Active"

AllReturned == \A t \in Threads : pc[t] \in {"idle", "panicked"}
IconOf(tr) == [icon_name |-> tr.icon_name, icon_theme_path |-> tr.icon_theme_path]
IconFrom(icon) ==
  [icon_name |-> split_icon(icon).icon_name,
   icon_theme_path |-> split_icon(icon).icon_theme_path]

\* C3: once every call has returned, the effect of the last completed mutation of each
\* field is in the tray, whatever mutations of the other field were interleaved with
\* it: the icon is that of the last set_icon and the menu that of the last set_menu.
C3_NoLostUpdate ==
  AllReturned => (tray.menu = lastMenu /\ IconOf(tray) = IconFrom(lastIcon))

\* a set_icon and a set_menu have both completed on a tray built without a menu
C3_Witness ==
  /\ AllReturned
  /\ builder.tray_menu = None
  /\ lastIcon = IconLossy
  /\ tray.icon_name = <<"?">>
  /\ tray.menu = Some(TrayMenu_new)

FromOnePath(ic) == \E p \in IconPaths : ~split_icon(p).panic /\ ic = IconFrom(p)

\* C4: while the service holds the tray for a read, the tray is the one a whole number
\* of completed mutations left; icon_name and icon_theme_path come from one icon path,
\* the menu is the whole menu of the construction or of a set_menu, and what the
\* service has read are values of that tray.
C4_ReadsSeeCompletedMutations ==
  lock = BySvc =>
    /\ tray = committed
    /\ FromOnePath(IconOf(tray))
    /\ tray.menu = lastMenu
    /\ (obs.some /\ obs.val.prop \in Properties) =>
         obs.val.val = Getter(committed, obs.val.prop)
    /\ (obs.some /\ obs.val.prop = "all") =>
         /\ \A q \in Properties : obs.val.val[q] = Getter(committed, q)
         /\ FromOnePath([icon_name |-> obs.val.val["icon_name"],
                         icon_theme_path |-> obs.val.val["icon_theme_path"]])

\* the service has read icon_name after a completed set_icon, a mutation waiting
C4_Witness ==
  /\ lock = BySvc
  /\ svc = "reply"
  /\ obs.some
  /\ obs.val.prop = "icon_name"
  /\ obs.val.val = <<"?">>
  /\ \E t \in Threads : pc[t] = "lock"

\* C5: whenever no mutation is in progress on the tray, icon_name and icon_search_path
\* are the stem and the parent of the path of the set_icon serialized last (of the
\* construction, before any), both of the same path.
C5_LastWriterWins ==
  lock = Free => IconOf(tray) = IconFrom(lastIcon)

\* two set_icon calls were serialized: the later one's path is in the tray while the
\* earlier call has not yet returned
C5_Witness ==
  /\ lock = Free
  /\ lastIcon = IconLossy
  /\ IconOf(tray) = [icon_name |-> <<"?">>, icon_theme_path |-> <<"/">>]
  /\ \E t \in Threads :
       pc[t] = "notify" /\ op[t].val.kind = "set_icon" /\ op[t].val.icon = IconApp

\* C6: when the closure of set_menu(new) returns, the tray's menu is exactly new, so
\* the entries reachable from the tray are those of new.
C6_SetMenuReplaces ==
  \A t \in Threads :
    (pc[t] = "unlock" /\ op[t].val.kind = "set_menu") =>
      tray.menu = Some(op[t].val.tray_menu)

\* set_menu has run on a tray that held a menu
C6_Witness ==
  \E t \in Threads :
    /\ pc[t] = "unlock"
    /\ op[t].val.kind = "set_menu"
    /\ committed.menu.some
    /\ tray.menu = Some(op[t].val.tray_menu)

Quiescent ==
  /\ AllReturned
  /\ svc = "panicked" \/ (svc = "idle" /\ pending = 0)

\* C7: no mutation completes without a later notification to the tray host: once
\* every call has returned and the service has nothing left to handle, every
\* completed set_icon and set_menu has been followed by a signal to the host.
C7_EveryMutationSignalled ==
  Quiescent => unsignalled = {}

\* C8: every activation the tray host reports has pushed one (window_id, id) message
\* onto the event channel, in the order of the activations.
C8_ActivationPushesMessage ==
  channel = [i \in 1..Len(activated) |-> <<WindowId, activated[i]>>]

\* C9: a menu-tree query returns a result in every reachable state of the tray.
C9_MenuQueryReturns ==
  ~(req = "menu" /\ svc = "panicked")

\* C10: the item add_item builds is a Checkmark item with checked = TRUE when selected
\* is TRUE and a Standard item when it is FALSE; its label is the title argument and
\* its enabled flag the enabled argument.
C10_AddItemKind ==
  (call.some /\ call.val.fn = "add_item") =>
    LET item == ret.val.inner_item
    IN /\ ret.some
       /\ item.label = call.val.title
       /\ item.enabled = call.val.enabled
       /\ call.val.selected => (item.variant = "Checkmark" /\ item.checked = TRUE)
       /\ ~call.val.selected => item.variant = "Standard"

\* add_item(id, "AutoStart", None, enabled = FALSE, selected = TRUE, ..)
C10_Witness ==
  /\ call.some
  /\ call.val.fn = "add_item"
  /\ call.val.title = "AutoStart"
  /\ call.val.selected
  /\ ~call.val.enabled
  /\ ret.val.inner_item.variant = "Checkmark"
  /\ ret.val.inner_item.checked

\* C11: over any sequence of add_item calls, no two of the entries created carry the
\* same id.
C11_EntryIdsUnique ==
  \A i, j \in 1..Len(entries) : i # j => entries[i].id # entries[j].id

\* C12: after any sequence of add_item calls the TrayMenu holds one entry per call, in
\* call order: the item of the i-th call is the i-th element of the menu.
C12_MenuHoldsAddedEntries ==
  menu = [i \in 1..Len(entries) |-> entries[i].inner_item]

\* C13: for every decomposable path p, applying set_icon(p) to a tray a second time
\* leaves the tray of the first application: a set_icon(p) that follows a completed
\* set_icon(p) leaves the whole tray as it found it, and on every reachable tray the
\* icon_name and icon_theme_path (and every other field) after two applications are
\* those after one.
C13_SetIconIdempotent ==
  /\ \A t \in Threads :
       (pc[t] = "unlock" /\ op[t].val.kind = "set_icon" /\ op[t].val.icon = lastIcon) =>
         tray = committed
  /\ \A p \in IconPaths :
       ~split_icon(p).panic =>
         KsniTray_set_icon(KsniTray_set_icon(tray, p), p) = KsniTray_set_icon(tray, p)

\* set_icon("/X") has completed on a tray built from "/a/a.a" and a second
\* set_icon("/X") has run its closure
C13_Witness ==
  /\ lastIcon = IconLossy
  /\ committed.icon_name = <<"?">>
  /\ \E t \in Threads :
       /\ pc[t] = "unlock"
       /\ op[t].val.kind = "set_icon"
       /\ op[t].val.icon = IconLossy
       /\ tray.icon_name = <<"?">>
       /\ tray.icon_theme_path = <<"/">>

\* C14: a set_icon call whose path cannot be decomposed does not abort the calling
\* thread: the call returns to its caller, no thread of the application is ever
\* unwound by a panic.
C14_BadSetIconReturns ==
  \A t \in Threads : pc[t] # "panicked"

\* C15: once the service thread has started the tray stays Running: no sequence of
\* handle mutations and protocol requests ends the service thread.
C15_AlwaysRunning ==
  svc # "panicked"

\* C16: add_submenu and add_native_item are no-ops: a call of either leaves the
\* TrayMenu's entry sequence (and the entries created so far) as it was, whatever the
\* arguments, and add_native_item returns no entry handle.
C16_NoOpsLeaveMenuUnchanged ==
  [][(call'.some /\ call' # call /\ call'.val.fn \in {"add_native_item", "add_submenu"}) =>
       /\ menu' = menu
       /\ entries' = entries
       /\ (call'.val.fn = "add_native_item" => ret' = None)]_vars

\* add_native_item(Quit, ..) has returned None after two add_item calls
C16_Witness ==
  /\ call.some
  /\ call.val.fn = "add_native_item"
  /\ call.val.item = "Quit"
  /\ ret = None
  /\ Len(entries) = 2
  /\ menu = TrayMenu_new

\* C17: the status is Active in every reachable state: in the tray build constructs,
\* with or without a menu, after every step of every set_icon and set_menu, and in
\* every status the service reads for the tray host.
C17_StatusAlwaysActive ==
  /\ tray.status = "Active"
  /\ committed.status = "Active"
  /\ (obs.some /\ obs.val.prop = "status") => obs.val.val = "Active"

\* the service reads the status of a tray built without a menu after a set_icon and a
\* set_menu have completed
C17_Witness ==
  /\ builder.tray_menu = None
  /\ lastIcon = IconLossy
  /\ lastMenu = Some(TrayMenu_new)
  /\ tray.menu.some
  /\ svc = "reply"
  /\ obs.some
  /\ obs.val.prop = "status"
  /\ tray.status = "Active"

\* C18: every step of a set_icon closure leaves title, status and menu unchanged, and
\* every step of a set_menu closure leaves title, icon_name, icon_theme_path and
\* status unchanged; no step of any kind changes the title, which is the one given at
\* construction, and a menu that is present is never absent after a step.
C18_FrameOfMutations ==
  [][/\ tray.title = Title
     /\ tray'.title = Title
     /\ tray.menu.some => tray'.menu.some
     /\ \A t \in Threads :
          (pc[t] \in {"closure", "icon_theme_path"} /\ pc'[t] # pc[t]) =>
            IF op[t].val.kind = "set_icon"
              THEN /\ tray'.title = tray.title
                   /\ tray'.status = tray.status
                   /\ tray'.menu = tray.menu
              ELSE /\ tray'.title = tray.title
                   /\ tray'.status = tray.status
                   /\ IconOf(tray') = IconOf(tray)]_vars

\* on a tray built with a menu, a set_icon and a set_menu have both returned: the
\* icon is the new one, the menu is present and the title is the one of construction
C18_Witness ==
  /\ builder.tray_menu.some
  /\ AllReturned
  /\ lastIcon = IconLossy
  /\ IconOf(tray) = IconFrom(IconLossy)
  /\ "set_menu" \in unsignalled
  /\ tray.menu.some
  /\ tray.title = Title
  /\ tray.status = "Active"

====
